---------------------------- MODULE Spec2Model ----------------------------
(***************************************************************************)
(* Hangeul composition engine of autofolkmusic (src/main.rs): the          *)
(* committed buffer, the composing buffer and the history, driven by the   *)
(* input window's raw events (characters, Backspace, Return) and by the    *)
(* frame update of the egui input field.                                   *)
(*                                                                         *)
(* Characters are Unicode code points (integers).  Option::None and a      *)
(* failed Result are the code point 0, which is never a typed character.   *)
(***************************************************************************)
EXTENDS Integers, Sequences, FiniteSets, TLC

NoChar == 0

(***************************************************************************)
(* Syllable codec (crate hangeul): the arithmetic layout of the composed   *)
(* syllable block, over compatibility jamo.                                *)
(***************************************************************************)
SyllableBase == 44032
SyllableEnd == 55203
VowelCount == 21
TrailingCount == 28
CompatVowelFirst == 12623
CompatVowelLast == 12643

\* The 19 lead consonants, in syllable-block order.
ChoseongTable ==
  << 12593, 12594, 12596, 12599, 12600, 12601, 12609, 12610, 12611, 12613,
     12614, 12615, 12616, 12617, 12618, 12619, 12620, 12621, 12622 >>

\* The 27 trailing consonants, in syllable-block order (index 0: no trailing).
JongseongTable ==
  << 12593, 12594, 12595, 12596, 12597, 12598, 12599, 12601, 12602, 12603,
     12604, 12605, 12606, 12607, 12608, 12609, 12610, 12612, 12613, 12614,
     12615, 12616, 12618, 12619, 12620, 12621, 12622 >>

IndexOf(table, c) ==
  IF \E i \in 1..Len(table) : table[i] = c
  THEN CHOOSE i \in 1..Len(table) : table[i] = c
  ELSE 0

is_syllable(code) == code >= SyllableBase /\ code <= SyllableEnd

is_jamo(code) == code >= 4352 /\ code <= 4607

is_compat_jamo(code) == code >= 12592 /\ code <= 12687

is_moeum(code) ==
  \/ (code >= CompatVowelFirst /\ code <= CompatVowelLast)
  \/ (code >= 4449 /\ code <= 4469)

is_jaeum(code) ==
  \/ (code >= 12593 /\ code <= 12622)
  \/ (code >= 4352 /\ code <= 4370)
  \/ (code >= 4520 /\ code <= 4546)

\* compose_char(lead, vowel, trailing): the syllable, or NoChar (Err).
compose_char(l, v, t) ==
  LET li == IndexOf(ChoseongTable, l)
      vi == IF v >= CompatVowelFirst /\ v <= CompatVowelLast
            THEN v - CompatVowelFirst + 1 ELSE 0
      ti == IF t = NoChar THEN 0 ELSE IndexOf(JongseongTable, t)
  IN IF li = 0 \/ vi = 0 \/ (t # NoChar /\ ti = 0)
     THEN NoChar
     ELSE SyllableBase + ((li - 1) * VowelCount + (vi - 1)) * TrailingCount + ti

\* decompose_char(c): ok is FALSE for Err(NotASyllable); tail NoChar for None.
decompose_char(c) ==
  IF ~is_syllable(c)
  THEN [ok |-> FALSE, lead |-> NoChar, vowel |-> NoChar, tail |-> NoChar]
  ELSE LET off == c - SyllableBase
           li == off \div (VowelCount * TrailingCount)
           vi == (off % (VowelCount * TrailingCount)) \div TrailingCount
           ti == off % TrailingCount
       IN [ok |-> TRUE,
           lead |-> ChoseongTable[li + 1],
           vowel |-> CompatVowelFirst + vi,
           tail |-> IF ti = 0 THEN NoChar ELSE JongseongTable[ti]]

\* ends_with_jongseong(s).unwrap_or(false)
ends_with_jongseong(s) ==
  /\ Len(s) > 0
  /\ decompose_char(s[Len(s)]).ok
  /\ decompose_char(s[Len(s)]).tail # NoChar

(***************************************************************************)
(* Cluster combiner (src/main.rs).                                         *)
(***************************************************************************)
\* Mutant of try_combine_vowel: ㅡ and ㅣ also combine in the reverse order.
try_combine_vowel_unordered(a, b) ==
  CASE a = 12631 /\ b = 12623 -> 12632
    [] a = 12631 /\ b = 12624 -> 12633
    [] a = 12631 /\ b = 12643 -> 12634
    [] a = 12636 /\ b = 12627 -> 12637
    [] a = 12636 /\ b = 12628 -> 12638
    [] a = 12636 /\ b = 12643 -> 12639
    [] a = 12641 /\ b = 12643 -> 12642
    [] a = 12643 /\ b = 12641 -> 12642
    [] OTHER -> NoChar

try_combine_vowel(a, b) ==
  CASE a = 12631 /\ b = 12623 -> 12632
    [] a = 12631 /\ b = 12624 -> 12633
    [] a = 12631 /\ b = 12643 -> 12634
    [] a = 12636 /\ b = 12627 -> 12637
    [] a = 12636 /\ b = 12628 -> 12638
    [] a = 12636 /\ b = 12643 -> 12639
    [] a = 12641 /\ b = 12643 -> 12642
    [] OTHER -> NoChar

try_combine_final(a, b) ==
  CASE a = 12593 /\ b = 12613 -> 12595
    [] a = 12596 /\ b = 12616 -> 12597
    [] a = 12596 /\ b = 12622 -> 12598
    [] a = 12601 /\ b = 12593 -> 12602
    [] a = 12601 /\ b = 12609 -> 12603
    [] a = 12601 /\ b = 12610 -> 12604
    [] a = 12601 /\ b = 12613 -> 12605
    [] a = 12601 /\ b = 12620 -> 12606
    [] a = 12601 /\ b = 12621 -> 12607
    [] a = 12601 /\ b = 12622 -> 12608
    [] a = 12610 /\ b = 12613 -> 12612
    [] OTHER -> NoChar

\* Mutant of split_final_jamo: the row of ㄻ returns the parts of ㄼ.
split_final_jamo_wrong_row(j) ==
  CASE j = 12595 -> [first |-> 12593, second |-> 12613]
    [] j = 12597 -> [first |-> 12596, second |-> 12616]
    [] j = 12598 -> [first |-> 12596, second |-> 12622]
    [] j = 12602 -> [first |-> 12601, second |-> 12593]
    [] j = 12603 -> [first |-> 12601, second |-> 12610]
    [] j = 12604 -> [first |-> 12601, second |-> 12610]
    [] j = 12605 -> [first |-> 12601, second |-> 12613]
    [] j = 12606 -> [first |-> 12601, second |-> 12620]
    [] j = 12607 -> [first |-> 12601, second |-> 12621]
    [] j = 12608 -> [first |-> 12601, second |-> 12622]
    [] j = 12612 -> [first |-> 12610, second |-> 12613]
    [] OTHER -> [first |-> NoChar, second |-> j]

\* split_final_jamo(j): first is NoChar when j is not a compound final.
split_final_jamo(j) ==
  CASE j = 12595 -> [first |-> 12593, second |-> 12613]
    [] j = 12597 -> [first |-> 12596, second |-> 12616]
    [] j = 12598 -> [first |-> 12596, second |-> 12622]
    [] j = 12602 -> [first |-> 12601, second |-> 12593]
    [] j = 12603 -> [first |-> 12601, second |-> 12609]
    [] j = 12604 -> [first |-> 12601, second |-> 12610]
    [] j = 12605 -> [first |-> 12601, second |-> 12613]
    [] j = 12606 -> [first |-> 12601, second |-> 12620]
    [] j = 12607 -> [first |-> 12601, second |-> 12621]
    [] j = 12608 -> [first |-> 12601, second |-> 12622]
    [] j = 12612 -> [first |-> 12610, second |-> 12613]
    [] OTHER -> [first |-> NoChar, second |-> j]

\* Mutant of cluster_from: the lookahead stops one short, so the last pair of
\* the input is not merged.
RECURSIVE cluster_from_short_lookahead(_, _)
cluster_from_short_lookahead(raw, i) ==
  IF i > Len(raw)
  THEN [clusters |-> << >>, spans |-> << >>]
  ELSE LET v == IF i + 1 < Len(raw) THEN try_combine_vowel(raw[i], raw[i + 1])
                ELSE NoChar
           f == IF i + 1 < Len(raw) THEN try_combine_final(raw[i], raw[i + 1])
                ELSE NoChar
       IN IF v # NoChar
          THEN LET r == cluster_from_short_lookahead(raw, i + 2)
               IN [clusters |-> << v >> \o r.clusters, spans |-> << 2 >> \o r.spans]
          ELSE IF f # NoChar
          THEN LET r == cluster_from_short_lookahead(raw, i + 2)
               IN [clusters |-> << f >> \o r.clusters, spans |-> << 2 >> \o r.spans]
          ELSE LET r == cluster_from_short_lookahead(raw, i + 1)
               IN [clusters |-> << raw[i] >> \o r.clusters,
                   spans |-> << 1 >> \o r.spans]

RECURSIVE cluster_from(_, _)
cluster_from(raw, i) ==
  IF i > Len(raw)
  THEN [clusters |-> << >>, spans |-> << >>]
  ELSE LET v == IF i + 1 <= Len(raw) THEN try_combine_vowel(raw[i], raw[i + 1])
                ELSE NoChar
           f == IF i + 1 <= Len(raw) THEN try_combine_final(raw[i], raw[i + 1])
                ELSE NoChar
       IN IF v # NoChar
          THEN LET r == cluster_from(raw, i + 2)
               IN [clusters |-> << v >> \o r.clusters, spans |-> << 2 >> \o r.spans]
          ELSE IF f # NoChar
          THEN LET r == cluster_from(raw, i + 2)
               IN [clusters |-> << f >> \o r.clusters, spans |-> << 2 >> \o r.spans]
          ELSE LET r == cluster_from(raw, i + 1)
               IN [clusters |-> << raw[i] >> \o r.clusters,
                   spans |-> << 1 >> \o r.spans]

cluster_jamo_with_spans(raw) == cluster_from(raw, 1)

\* Mutant of collapse_to_syllable: three clusters are composed without the
\* trailing consonant.
collapse_without_trailing(clustered) ==
  CASE Len(clustered) = 1 -> clustered[1]
    [] Len(clustered) = 2 -> compose_char(clustered[1], clustered[2], NoChar)
    [] Len(clustered) = 3 -> compose_char(clustered[1], clustered[2], NoChar)
    [] OTHER -> NoChar

\* collapse_to_syllable(clustered): NoChar for None.
collapse_to_syllable(clustered) ==
  CASE Len(clustered) = 1 -> clustered[1]
    [] Len(clustered) = 2 -> compose_char(clustered[1], clustered[2], NoChar)
    [] Len(clustered) = 3 -> compose_char(clustered[1], clustered[2], clustered[3])
    [] OTHER -> NoChar

is_punctuation(c) ==
  \/ c = 32
  \/ (c >= 33 /\ c <= 47)
  \/ (c >= 58 /\ c <= 64)
  \/ (c >= 91 /\ c <= 96)
  \/ (c >= 123 /\ c <= 126)

(***************************************************************************)
(* Composition session (src/main.rs).  An operator on m takes and returns  *)
(* the three fields of Model the engine owns:                              *)
(*   m.committed (input_committed), m.composing (input_composing),         *)
(*   m.history (input_history),                                            *)
(* and m.panicked: a todo!(), an unwrap() of None or Err, or a drain past  *)
(* the end of the buffer was reached, which ends the program.              *)
(***************************************************************************)
ComposingCapacity == 5

Last(s) == s[Len(s)]
Front(s) == SubSeq(s, 1, Len(s) - 1)

RECURSIVE SumSeq(_)
SumSeq(s) == IF s = << >> THEN 0 ELSE Head(s) + SumSeq(Tail(s))

\* draw_output / update_input: the text shown, committed followed by the tail.
display(m) ==
  LET clusters == cluster_jamo_with_spans(m.composing).clusters
      one == collapse_to_syllable(clusters)
      tail == IF one # NoChar THEN << one >> ELSE clusters
  IN m.committed \o tail

\* Mutant of finalize_composing_buffer: the raw jamo are committed unclustered.
finalize_raw(m) ==
  [m EXCEPT !.committed = @ \o m.composing, !.composing = << >>]

\* Mutant of finalize_composing_buffer: the composing buffer is not cleared.
finalize_no_clear(m) ==
  LET clusters == cluster_jamo_with_spans(m.composing).clusters
      syllable == collapse_to_syllable(clusters)
  IN [m EXCEPT !.committed = IF syllable # NoChar
                             THEN Append(@, syllable)
                             ELSE @ \o clusters]

finalize_composing_buffer(m) ==
  LET clusters == cluster_jamo_with_spans(m.composing).clusters
      syllable == collapse_to_syllable(clusters)
  IN [m EXCEPT !.committed = IF syllable # NoChar
                             THEN Append(@, syllable)
                             ELSE @ \o clusters,
               !.composing = << >>]

handle_enter_commit(m) ==
  LET f == finalize_composing_buffer(m)
  IN [f EXCEPT !.history = Append(@, f.committed),
               !.committed = << >>]

handle_punctuation_commit(m, ch) ==
  LET f == finalize_composing_buffer(m)
  IN [f EXCEPT !.committed = Append(@, ch)]

\* Mutant of jamo_minus_last: the last jamo is not removed.
jamo_not_popped(d) ==
  IF d.tail # NoChar THEN << d.lead, d.vowel, d.tail >> ELSE << d.lead, d.vowel >>

\* The jamo of a decomposed syllable with the last one removed.
jamo_minus_last(d) ==
  IF d.tail # NoChar THEN << d.lead, d.vowel >> ELSE << d.lead >>

\* handle_backspace, first block on the committed buffer (lines 776-792).
backspace_pop_first(m) ==
  IF m.committed = << >>
  THEN m
  ELSE LET last == Last(m.committed)
           d == decompose_char(last)
       IN [m EXCEPT !.committed = Front(@),
                    !.composing = IF d.ok THEN jamo_minus_last(d) ELSE @]

\* handle_backspace, second block on the committed buffer (lines 793-807).
backspace_pop_second(m) ==
  IF m.committed = << >>
  THEN m
  ELSE LET last == Last(m.committed)
           d == decompose_char(last)
       IN [m EXCEPT !.committed = Front(@),
                    !.composing = IF d.ok THEN jamo_minus_last(d) ELSE @]

\* Mutant of handle_backspace: no return after the pop from the composing buffer.
handle_backspace_no_return(m) ==
  backspace_pop_second(backspace_pop_first(
    [m EXCEPT !.composing = IF @ = << >> THEN @ ELSE Front(@)]))

handle_backspace(m) ==
  IF m.composing # << >>
  THEN [m EXCEPT !.composing = Front(@)]
  ELSE backspace_pop_second(backspace_pop_first(m))

\* The syllable rebuilt with only the first part of its split trailing consonant.
rebuilt_base(d) ==
  LET sp == split_final_jamo(d.tail)
  IN [base |-> compose_char(d.lead, d.vowel, sp.first), second |-> sp.second]

\* raw_window_event, case A: composing empty, committed ends with a trailing
\* consonant (lines 544-562).
resyllabify_committed(m, ch) ==
  IF m.committed = << >>
  THEN [m EXCEPT !.panicked = TRUE]
  ELSE LET last == Last(m.committed)
           d == decompose_char(last)
           r == rebuilt_base(d)
       IN IF ~d.ok \/ d.tail = NoChar \/ r.base = NoChar
          THEN [m EXCEPT !.panicked = TRUE]
          ELSE [m EXCEPT !.committed = Front(@) \o << r.base, ch >>,
                         !.composing = << r.second >>]

\* raw_window_event, case B: the composing buffer is one syllable with a
\* trailing consonant (lines 564-586).
composing_syllable(m) ==
  collapse_to_syllable(cluster_jamo_with_spans(m.composing).clusters)

\* Mutant of resyllabify_composing: the vowel is pushed onto committed.
resyllabify_composing_vowel_committed(m, ch) ==
  LET r == rebuilt_base(decompose_char(composing_syllable(m)))
  IN [m EXCEPT !.committed = @ \o << r.base, ch >>,
               !.composing = << r.second >>]

\* Mutant of resyllabify_composing: the vowel is queued before the migrated
\* consonant.
resyllabify_composing_swapped(m, ch) ==
  LET d == decompose_char(composing_syllable(m))
      r == rebuilt_base(d)
  IN [m EXCEPT !.committed = Append(@, r.base),
               !.composing = << ch, r.second >>]

resyllabify_composing(m, ch) ==
  LET d == decompose_char(composing_syllable(m))
      r == rebuilt_base(d)
  IN IF ~d.ok \/ d.tail = NoChar \/ r.base = NoChar
     THEN [m EXCEPT !.panicked = TRUE]
     ELSE [m EXCEPT !.committed = Append(@, r.base),
                    !.composing = << r.second, ch >>]

\* Mutant of commit_non_jamo: clear() is called on the committed buffer
\* instead of the composing buffer.
commit_non_jamo_clears_committed(m, ch) ==
  [m EXCEPT !.committed = << ch >>]

\* Mutant of commit_non_jamo: the character is pushed before the pending
\* jamo.
commit_non_jamo_reordered(m, ch) ==
  [m EXCEPT !.committed = (@ \o << ch >>) \o m.composing,
            !.composing = << >>]

\* raw_window_event, not a Hangeul jamo (lines 590-595).
commit_non_jamo(m, ch) ==
  [m EXCEPT !.committed = (@ \o m.composing) \o << ch >>,
            !.composing = << >>]

\* Mutant of commit_prefix_loop: as many raw jamo are drained as the prefix
\* has clusters.
RECURSIVE commit_prefix_loop_drain_clusters(_)
commit_prefix_loop_drain_clusters(m) ==
  LET cs == cluster_jamo_with_spans(m.composing)
      n == Len(cs.clusters)
      collapsing == { i \in 1..(n - 1) :
                        collapse_to_syllable(SubSeq(cs.clusters, 1, i)) # NoChar }
  IN IF collapse_to_syllable(cs.clusters) # NoChar \/ collapsing = {}
     THEN m
     ELSE LET i == CHOOSE k \in collapsing : \A j \in collapsing : j <= k
              syll == collapse_to_syllable(SubSeq(cs.clusters, 1, i))
          IN commit_prefix_loop_drain_clusters(
               [m EXCEPT !.committed = Append(@, syll),
                         !.composing = SubSeq(@, i + 1, Len(@))])

\* raw_window_event, the loop committing prefix clusters (lines 605-628).
RECURSIVE commit_prefix_loop(_)
commit_prefix_loop(m) ==
  LET cs == cluster_jamo_with_spans(m.composing)
      n == Len(cs.clusters)
      collapsing == { i \in 1..(n - 1) :
                        collapse_to_syllable(SubSeq(cs.clusters, 1, i)) # NoChar }
  IN IF collapse_to_syllable(cs.clusters) # NoChar \/ collapsing = {}
     THEN m
     ELSE LET i == CHOOSE k \in collapsing : \A j \in collapsing : j <= k
              syll == collapse_to_syllable(SubSeq(cs.clusters, 1, i))
              raw_to_remove == SumSeq(SubSeq(cs.spans, 1, i))
          IN IF raw_to_remove > Len(m.composing)
             THEN [m EXCEPT !.committed = Append(@, syll), !.panicked = TRUE]
             ELSE commit_prefix_loop(
                    [m EXCEPT !.committed = Append(@, syll),
                              !.composing = SubSeq(@, raw_to_remove + 1, Len(@))])

\* Mutant of push_with_eviction: nothing is evicted.
push_without_eviction(m, ch) == [m EXCEPT !.composing = Append(@, ch)]

\* raw_window_event, push with eviction of the oldest jamo (lines 598-602).
push_with_eviction(m, ch) ==
  LET pushed == Append(m.composing, ch)
  IN IF Len(pushed) > ComposingCapacity
     THEN [m EXCEPT !.committed = Append(@, Head(pushed)),
                    !.composing = Tail(pushed)]
     ELSE [m EXCEPT !.composing = pushed]

push_jamo(m, ch) == commit_prefix_loop(push_with_eviction(m, ch))

\* Mutant of received_character: a vowel resyllabifies whatever the composing
\* buffer collapses to, with or without a trailing consonant (line 568).
received_character_no_jongseong_check(m, ch) ==
  IF is_punctuation(ch)
  THEN handle_punctuation_commit(m, ch)
  ELSE IF is_moeum(ch) /\ m.composing = << >> /\ ends_with_jongseong(m.committed)
  THEN resyllabify_committed(m, ch)
  ELSE IF is_moeum(ch) /\ composing_syllable(m) # NoChar
  THEN resyllabify_composing(m, ch)
  ELSE IF ~is_jamo(ch) /\ ~is_compat_jamo(ch)
  THEN commit_non_jamo(m, ch)
  ELSE push_jamo(m, ch)

\* raw_window_event on ReceivedCharacter(ch) (lines 532-630).
received_character(m, ch) ==
  IF is_punctuation(ch)
  THEN handle_punctuation_commit(m, ch)
  ELSE IF is_moeum(ch) /\ m.composing = << >> /\ ends_with_jongseong(m.committed)
  THEN resyllabify_committed(m, ch)
  ELSE IF is_moeum(ch) /\ composing_syllable(m) # NoChar
                       /\ ends_with_jongseong(<< composing_syllable(m) >>)
  THEN resyllabify_composing(m, ch)
  ELSE IF ~is_jamo(ch) /\ ~is_compat_jamo(ch)
  THEN commit_non_jamo(m, ch)
  ELSE push_jamo(m, ch)

\* update_input, the Enter branch of the text field (lines 435-445).
update_input_enter(m) ==
  [m EXCEPT !.history = Append(@, display(m)),
            !.committed = << >>,
            !.composing = << >>]

\* Mutant of draw_output: the view finalizes the composing buffer it shows.
draw_output_finalizing(m) ==
  LET f == finalize_composing_buffer(m)
  IN [model |-> f, text |-> f.committed]

\* draw_output(model: &Model): the model as it leaves the call and the text
\* handed to draw.text (lines 236-258).
draw_output(m) == [model |-> m, text |-> display(m)]

(***************************************************************************)
(* Karacter (src/services/hangeul_composer.rs).  A field holds NoChar for  *)
(* None.                                                                   *)
(***************************************************************************)
\* is_choseong(code) of the crates the file imports: a lead consonant, as a
\* compatibility jamo or as a conjoining jamo.
is_choseong(code) ==
  \/ IndexOf(ChoseongTable, code) # 0
  \/ (code >= 4352 /\ code <= 4370)

\* Karacter::new (lines 17-26).
new ==
  [first |-> NoChar, second |-> NoChar, third |-> NoChar,
   choseong |-> NoChar, jungseong |-> NoChar, jongseong |-> NoChar]

\* Mutant of process_char: first is set whatever the character is.
process_char_any_first(k, c) ==
  IF k.first = NoChar
  THEN [karacter |-> [k EXCEPT !.first = c], result |-> c]
  ELSE [karacter |-> k, result |-> NoChar]

\* Karacter::process_char (lines 28-42): the value as the call leaves it and
\* what the call returns, NoChar for None.
process_char(k, c) ==
  IF k.first = NoChar
  THEN [karacter |-> IF is_choseong(c) THEN [k EXCEPT !.first = c] ELSE k,
        result |-> c]
  ELSE IF k.first # NoChar /\ k.second = NoChar
  THEN [karacter |-> k, result |-> NoChar]
  ELSE [karacter |-> k, result |-> NoChar]

(***************************************************************************)
(* State.  input_committed, input_composing and input_history are the      *)
(* fields of Model.  panicked: the program has panicked.  shown: the text  *)
(* the last frame drew.  egui_enter: the egui context was handed a Return  *)
(* key press (line 498) that no frame has consumed yet.  The others record *)
(* the run: typed, the characters received in this session; n_back, the   *)
(* Backspace presses of this session; typed_after_back, whether a          *)
(* character followed a Backspace in this session; n_return, the Return    *)
(* presses so far; n_events, the key events so far.  karacter is a Karacter *)
(* value (services/hangeul_composer.rs); calls and returns are the         *)
(* characters passed to its process_char so far and what each call         *)
(* returned.                                                               *)
(***************************************************************************)
VARIABLES input_committed, input_composing, input_history, panicked, shown,
          egui_enter, typed, n_back, typed_after_back, n_return, n_events,
          karacter, calls, returns

vars == << input_committed, input_composing, input_history, panicked, shown,
           egui_enter, typed, n_back, typed_after_back, n_return, n_events,
           karacter, calls, returns >>

\* The Karacter value and the record of its process_char calls; no event of
\* the input window touches them.
karacter_vars == << karacter, calls, returns >>

\* Bounds of the model.
MaxEvents == 5
MaxUndoTyped == 5
MaxCapEvents == 6

\* Typed characters: g, l (consonants), a, o (vowels), '.', 'a' (Latin),
\* the syllable blocks dalg (compound trailing l+g) and gan (trailing n).
Keys == { 12593, 12601, 12623, 12631, 46, 97, 45805, 44036 }

\* Undo runs: g, n, l, a, o, Latin 'a', the syllable gan, the precomposed
\* compound trailing consonant lg.
UndoKeys == { 12593, 12596, 12601, 12623, 12631, 97, 44036, 12602 }

\* Capacity runs: g, l, s (consonants), o, a (vowels).
CapKeys == { 12593, 12601, 12613, 12631, 12623 }

TheModel ==
  [committed |-> input_committed, composing |-> input_composing,
   history |-> input_history, panicked |-> panicked]

Store(m) ==
  /\ input_committed' = m.committed
  /\ input_composing' = m.composing
  /\ input_history' = m.history
  /\ panicked' = m.panicked

\* fn model: both buffers and the history start empty (lines 170-173).
Init ==
  /\ input_committed = << >>
  /\ input_composing = << >>
  /\ input_history = << >>
  /\ panicked = FALSE
  /\ shown = << >>
  /\ egui_enter = FALSE
  /\ typed = << >>
  /\ n_back = 0
  /\ typed_after_back = FALSE
  /\ n_return = 0
  /\ n_events = 0
  /\ karacter = new
  /\ calls = << >>
  /\ returns = << >>

\* raw_window_event on ReceivedCharacter(ch), ch drawn from K.
ReceivedCharacter(K, max) ==
  \E ch \in K :
    /\ ~panicked
    /\ n_events < max
    /\ Store(received_character(TheModel, ch))
    /\ typed' = Append(typed, ch)
    /\ typed_after_back' = (typed_after_back \/ n_back > 0)
    /\ n_events' = n_events + 1
    /\ UNCHANGED << shown, egui_enter, n_back, n_return, karacter_vars >>

\* raw_window_event on VirtualKeyCode::Back (lines 515-526).
KeyBack(max) ==
  /\ ~panicked
  /\ n_events < max
  /\ Store(handle_backspace(TheModel))
  /\ n_back' = n_back + 1
  /\ n_events' = n_events + 1
  /\ UNCHANGED << shown, egui_enter, typed, typed_after_back, n_return,
                  karacter_vars >>

\* raw_window_event on VirtualKeyCode::Return (lines 498, 511-514): egui is
\* handed the key press, then handle_enter_commit runs.
KeyReturn(max) ==
  /\ ~panicked
  /\ n_events < max
  /\ Store(handle_enter_commit(TheModel))
  /\ egui_enter' = TRUE
  /\ shown' = shown
  /\ UNCHANGED karacter_vars
  /\ typed' = << >>
  /\ n_back' = 0
  /\ typed_after_back' = FALSE
  /\ n_return' = n_return + 1
  /\ n_events' = n_events + 1

\* update, one frame (lines 204-225): update_input, then draw_output.  With
\* a Return press pending, the single-line text field reports lost_focus()
\* with Enter pressed, or it does not (it did not hold the focus).
Update ==
  /\ ~panicked
  /\ egui_enter' = FALSE
  /\ \E lost_focus \in BOOLEAN :
       LET entered == egui_enter /\ lost_focus
           after_input == IF entered THEN update_input_enter(TheModel)
                          ELSE TheModel
           drawn == draw_output(after_input)
       IN /\ Store(drawn.model)
          /\ shown' = drawn.text
          /\ typed' = IF entered THEN << >> ELSE typed
          /\ n_back' = IF entered THEN 0 ELSE n_back
          /\ typed_after_back' = IF entered THEN FALSE ELSE typed_after_back
  /\ UNCHANGED << n_return, n_events, karacter_vars >>

\* The frame after a Return press.  A frame with no Return pending changes
\* only the text drawn; the runs that do not read it leave those frames out.
UpdateInput == egui_enter /\ Update

TypeKey == ReceivedCharacter(Keys, MaxEvents)
PressBack == KeyBack(MaxEvents)
PressReturn == KeyReturn(MaxEvents)

Next == TypeKey \/ PressBack \/ PressReturn \/ UpdateInput

Spec == Init /\ [][Next]_vars

\* Undo runs: characters only, then Backspace once per character.
UndoType == n_back = 0 /\ Len(typed) < MaxUndoTyped
            /\ ReceivedCharacter(UndoKeys, 2 * MaxUndoTyped)
UndoBack == n_back < Len(typed) /\ KeyBack(2 * MaxUndoTyped)

NextUndo == UndoType \/ UndoBack

SpecUndo == Init /\ [][NextUndo]_vars

\* Capacity runs: jamo and Backspace, long enough to fill the composing buffer.
CapType == ReceivedCharacter(CapKeys, MaxCapEvents)
CapBack == KeyBack(MaxCapEvents)

NextCap == CapType \/ CapBack

SpecCap == Init /\ [][NextCap]_vars

(***************************************************************************)
(* Steps, as seen from the run variables.                                  *)
(***************************************************************************)
CharStep == Len(typed') = Len(typed) + 1
TypedChar == typed'[Len(typed')]
BackStep == n_back' = n_back + 1
ReturnStep == n_return' = n_return + 1

IsJamoChar(c) == is_jamo(c) \/ is_compat_jamo(c)
IsLead(c) == IndexOf(ChoseongTable, c) # 0
IsSimpleTrailing(c) ==
  IndexOf(JongseongTable, c) # 0 /\ split_final_jamo(c).first = NoChar

\* The composing buffer as finalize appends it: one collapsed syllable, or
\* else each clustered element.
Finalized(composing) ==
  LET clusters == cluster_jamo_with_spans(composing).clusters
      one == collapse_to_syllable(clusters)
  IN IF one # NoChar THEN << one >> ELSE clusters

Display == display(TheModel)

\* The syllable a vowel would resyllabify: the committed tail when the
\* composing buffer is empty, else the collapsed composing buffer.
TriggerSyllable ==
  IF input_composing = << >>
  THEN (IF input_committed = << >> THEN NoChar ELSE Last(input_committed))
  ELSE composing_syllable(TheModel)

(***************************************************************************)
(* Claims.                                                                 *)
(***************************************************************************)

\* C1: with the composing buffer empty and the last committed character a
\* syllable (L,V,T) with trailing T, appending a vowel X replaces that
\* character by the syllable rebuilt with only the first part of
\* split_trailing(T), adds nothing else to committed, and leaves the
\* composing buffer equal to << second part of T, X >>.
C1_ResyllabifyCommittedTail ==
  [][ (/\ CharStep
       /\ is_moeum(TypedChar)
       /\ input_composing = << >>
       /\ ends_with_jongseong(input_committed))
      => LET d == decompose_char(Last(input_committed))
             sp == split_final_jamo(d.tail)
         IN /\ input_committed' =
                 Append(Front(input_committed),
                        compose_char(d.lead, d.vowel, sp.first))
            /\ input_composing' = << sp.second, TypedChar >> ]_vars

\* C2: Backspace with an empty composing buffer and a non-empty committed
\* buffer removes exactly the last committed character; composing becomes
\* the jamo of that syllable minus the last one, or stays empty when the
\* character is not a syllable.
C2_BackspacePopsOneCommitted ==
  [][ (BackStep /\ input_composing = << >> /\ input_committed # << >>)
      => LET d == decompose_char(Last(input_committed))
         IN /\ input_committed' = Front(input_committed)
            /\ input_composing' =
                 (IF ~d.ok THEN << >>
                  ELSE IF d.tail # NoChar THEN << d.lead, d.vowel >>
                  ELSE << d.lead >>) ]_vars

\* C3 as claimed: from an empty session, n appended characters with no
\* punctuation and no enter, then n backspaces, leave both buffers empty.
C3_BackspaceInvertsAppend ==
  (/\ ~typed_after_back
   /\ n_back = Len(typed)
   /\ \A i \in 1..Len(typed) : ~is_punctuation(typed[i]))
  => (input_committed = << >> /\ input_composing = << >>)

\* A character one keystroke of which is one unit of undo: not a precomposed
\* syllable block and not a precomposed compound trailing consonant.
IsUndoUnit(c) == ~is_syllable(c) /\ split_final_jamo(c).first = NoChar

\* C3 as amended: the same, for appended characters none of which is a
\* precomposed syllable block or a precomposed compound trailing consonant.
C3_BackspaceInvertsSimpleAppend ==
  (/\ ~typed_after_back
   /\ n_back = Len(typed)
   /\ \A i \in 1..Len(typed) :
        ~is_punctuation(typed[i]) /\ IsUndoUnit(typed[i]))
  => (input_committed = << >> /\ input_composing = << >>)

\* Witness of C3: g, a, n, l were typed (gan committed, l composing) and
\* four backspaces emptied both buffers.
C3_Witness ==
  /\ typed = << 12593, 12623, 12596, 12601 >>
  /\ n_back = 4
  /\ ~typed_after_back
  /\ input_committed = << >>
  /\ input_composing = << >>

\* C4: from an empty session, typing a lead L, a vowel V, a simple trailing
\* consonant T and a vowel X leaves the syllable (L,V) in committed and the
\* jamo T, X in the composing buffer, shown as the syllable (T,X).
C4_EndToEndResyllabification ==
  (/\ Len(typed) = 4
   /\ n_back = 0
   /\ IsLead(typed[1])
   /\ is_moeum(typed[2])
   /\ IsSimpleTrailing(typed[3])
   /\ is_moeum(typed[4]))
  => /\ input_committed = << compose_char(typed[1], typed[2], NoChar) >>
     /\ input_composing = << typed[3], typed[4] >>
     /\ Display = << compose_char(typed[1], typed[2], NoChar),
                     compose_char(typed[3], typed[4], NoChar) >>

\* Witness of C4: g, a, l, o typed; ga committed, lo pending.
C4_Witness ==
  /\ typed = << 12593, 12623, 12601, 12631 >>
  /\ n_back = 0
  /\ input_committed = << 44032 >>
  /\ Display = << 44032, compose_char(12601, 12631, NoChar) >>

\* C5: when the syllable that triggers resyllabification (the committed tail
\* with composing empty, or the collapsed composing buffer) has a compound
\* trailing consonant (first, second), the incoming vowel X leaves the
\* rebuilt previous syllable with trailing first, and second is the lead of
\* the new pending syllable (second, X).
C5_CompoundSplit ==
  [][ (/\ CharStep
       /\ is_moeum(TypedChar)
       /\ ends_with_jongseong(<< TriggerSyllable >>)
       /\ split_final_jamo(decompose_char(TriggerSyllable).tail).first # NoChar)
      => LET d == decompose_char(TriggerSyllable)
             sp == split_final_jamo(d.tail)
             n == Len(Display')
         IN /\ n >= 2
            /\ Display'[n - 1] = compose_char(d.lead, d.vowel, sp.first)
            /\ Display'[n] = compose_char(sp.second, TypedChar, NoChar) ]_vars

\* C6: appending a character that is neither punctuation nor jamo appends to
\* committed the finalized composing buffer (clustered, collapsed to one
\* syllable when the whole buffer collapses) and then the character, and
\* leaves the composing buffer empty.
C6_NonJamoFinalizes ==
  [][ (CharStep /\ ~is_punctuation(TypedChar) /\ ~IsJamoChar(TypedChar))
      => /\ input_committed' =
              (input_committed \o Finalized(input_composing)) \o << TypedChar >>
         /\ input_composing' = << >> ]_vars

\* C7: appending a punctuation or space character appends to committed the
\* finalized composing buffer (one collapsed syllable, or else each clustered
\* element; a lone lead consonant unconverted) immediately followed by the
\* character, and leaves the composing buffer empty.
C7_PunctuationBoundary ==
  [][ (CharStep /\ is_punctuation(TypedChar))
      => /\ input_committed' =
              (input_committed \o Finalized(input_composing)) \o << TypedChar >>
         /\ (Len(input_composing) = 1
               => input_committed' =
                    input_committed \o << input_composing[1], TypedChar >>)
         /\ input_composing' = << >> ]_vars

\* Witness of C7: a lone g was composing when '.' arrived.
C7_Witness ==
  /\ typed = << 12593, 46 >>
  /\ n_back = 0
  /\ input_committed = << 12593, 46 >>
  /\ input_composing = << >>

\* An ordinary jamo append: a jamo that is not punctuation and does not
\* resyllabify.
OrdinaryAppend ==
  /\ CharStep
  /\ ~is_punctuation(TypedChar)
  /\ IsJamoChar(TypedChar)
  /\ ~(is_moeum(TypedChar) /\ ends_with_jongseong(<< TriggerSyllable >>))

\* C8: the composing buffer never holds more than 5 raw jamo; when an
\* ordinary jamo append makes it 6, exactly the oldest element is moved
\* unmodified to the tail of committed, and clustering then runs on the
\* remaining five.
C8_Capacity ==
  /\ [](Len(input_composing) <= ComposingCapacity)
  /\ [][ (OrdinaryAppend /\ Len(input_composing) = ComposingCapacity)
         => LET rest == commit_prefix_loop(
                          [committed |-> << >>,
                           composing |-> Append(Tail(input_composing), TypedChar),
                           history |-> << >>, panicked |-> FALSE])
            IN /\ input_committed' =
                    Append(input_committed, Head(input_composing))
                      \o rest.committed
               /\ input_composing' = rest.composing ]_vars

\* Witness of C8: g, o, a, l, g filled the buffer and s evicted g.
C8_Witness ==
  /\ typed = << 12593, 12631, 12623, 12601, 12593, 12613 >>
  /\ n_back = 0
  /\ input_committed = << 12593, 12632, 12602 >>
  /\ input_composing = << 12613 >>

\* C9: each enter keystroke appends exactly one entry to history, equal to
\* the committed text after finalizing the composing buffer into it, and
\* leaves both buffers empty; history grows by no other step.
C9_OneEntryPerEnter ==
  [][ /\ (ReturnStep
            => /\ input_history' =
                    Append(input_history,
                           input_committed \o Finalized(input_composing))
               /\ input_committed' = << >>
               /\ input_composing' = << >>)
      /\ (input_history' # input_history => ReturnStep) ]_vars

\* C10: Backspace with a non-empty composing buffer removes only the last
\* element of the composing buffer and leaves committed unchanged.
C10_BackspacePopsComposing ==
  [][ (BackStep /\ input_composing # << >>)
      => /\ input_composing' = Front(input_composing)
         /\ input_committed' = input_committed ]_vars

\* Witness of C10: 'a' committed, g and a composing, one backspace.
C10_Witness ==
  /\ typed = << 97, 12593, 12623 >>
  /\ n_back = 1
  /\ input_committed = << 97 >>
  /\ input_composing = << 12593 >>

(***************************************************************************)
(* Claims on the absence of an error state, the lookup tables, the codec,  *)
(* the rendered view, eviction, the prefix commit, clustering and the      *)
(* growth of the committed buffer.                                         *)
(***************************************************************************)

\* A run over a wider alphabet: Keys and, beyond them, a conjoining vowel, a
\* compound vowel, a consonant, a double consonant, the last syllable block,
\* a Latin capital and a control character.
MaxWideEvents == 4

WideKeys == Keys \cup {4449, 12632, 12613, 12600, 55203, 65, 9}

WideType == ReceivedCharacter(WideKeys, MaxWideEvents)
WideBack == KeyBack(MaxWideEvents)
WideReturn == KeyReturn(MaxWideEvents)

NextWide == WideType \/ WideBack \/ WideReturn \/ UpdateInput

SpecWide == Init /\ [][NextWide]_vars

Defined(buffer) == \A i \in 1..Len(buffer) : buffer[i] # NoChar

\* C11: the program has no error state: whatever characters and keys arrive,
\* no todo!(), no unwrap() of a failed pop or compose_char and no drain past
\* the end of the composing buffer is reached, and both buffers hold defined
\* characters in every reachable state.
C11_NoErrorState ==
  /\ ~panicked
  /\ Defined(input_committed)
  /\ Defined(input_composing)

\* A conjoining vowel after 갈 went through the destructuring of line 572
\* and the unwrap of line 580.
C11_Witness ==
  /\ ~panicked
  /\ typed = << 12593, 12623, 12601, 4449 >>
  /\ input_committed = << compose_char(12593, 12623, NoChar) >>
  /\ input_composing = << 12601, 4449 >>

\* C12: finalize is idempotent: from every reachable state, finalizing
\* twice leaves the buffers that finalizing once leaves; the first call
\* empties the composing buffer and the second appends nothing.
C12_FinalizeIdempotent ==
  LET once == finalize_composing_buffer(TheModel)
      twice == finalize_composing_buffer(once)
  IN /\ once.composing = << >>
     /\ twice.committed = once.committed
     /\ twice.composing = once.composing

\* A pending 가: the first finalize appends it to the committed text.
C12_Witness ==
  /\ input_composing = << 12593, 12623 >>
  /\ input_committed = << 12593 >>
  /\ finalize_composing_buffer(TheModel).committed
       = << 12593, compose_char(12593, 12623, NoChar) >>

(***************************************************************************)
(* A run that feeds the lookup tables every pair of compatibility jamo:    *)
(* after ㄱ and ㅏ, the third and the fourth character are any two of the   *)
(* 51 compatibility jamo, and every later character is ㅏ, so that a        *)
(* compound trailing consonant built from the pair is split again.         *)
(***************************************************************************)
MaxPairEvents == 5

CompatJamo == 12593..12643

PairKeys ==
  CASE Len(typed) = 0 -> {12593}
    [] Len(typed) \in {2, 3} -> CompatJamo
    [] OTHER -> {12623}

PairType == ReceivedCharacter(PairKeys, MaxPairEvents)

NextPairs == PairType

SpecPairs == Init /\ [][NextPairs]_vars

PairTyped == Len(typed) >= 4
PairFirst == typed[3]
PairSecond == typed[4]

\* The 11 trailing digraphs: g+s, n+j, n+h, l+g, l+m, l+b, l+s, l+t, l+p, l+h,
\* b+s.
TrailingDigraphs ==
  { << 12593, 12613 >>, << 12596, 12616 >>, << 12596, 12622 >>,
    << 12601, 12593 >>, << 12601, 12609 >>, << 12601, 12610 >>,
    << 12601, 12613 >>, << 12601, 12620 >>, << 12601, 12621 >>,
    << 12601, 12622 >>, << 12610, 12613 >> }

IsCompoundTrailing(x) ==
  \E p \in TrailingDigraphs : try_combine_final(p[1], p[2]) = x

\* C13: split_final_jamo is the exact inverse of try_combine_final: a pair
\* combines exactly when it is one of the 11 trailing digraphs, the compound
\* it gives splits back into that pair in that order, a compound splits into
\* a pair that combines to it, and a character that is no compound splits
\* into (none, itself).
C13_SplitInvertsCombine ==
  PairTyped =>
    LET c == try_combine_final(PairFirst, PairSecond)
    IN /\ (c # NoChar) <=> (<< PairFirst, PairSecond >> \in TrailingDigraphs)
       /\ c # NoChar =>
            split_final_jamo(c) = [first |-> PairFirst, second |-> PairSecond]
       /\ \A x \in {PairFirst, PairSecond} :
            LET s == split_final_jamo(x)
            IN IF IsCompoundTrailing(x)
               THEN s.first # NoChar /\ try_combine_final(s.first, s.second) = x
               ELSE s = [first |-> NoChar, second |-> x]

\* ㄹ and ㄱ were combined under 갉, and the vowel that followed split them.
C13_Witness ==
  /\ typed = << 12593, 12623, 12601, 12593, 12623 >>
  /\ input_committed = << compose_char(12593, 12623, 12601) >>
  /\ input_composing = << 12593, 12623 >>

\* The vowel digraphs: o+a, o+ae, o+i, u+eo, u+e, u+i, eu+i.
VowelDigraphs ==
  { << 12631, 12623 >>, << 12631, 12624 >>, << 12631, 12643 >>,
    << 12636, 12627 >>, << 12636, 12628 >>, << 12636, 12643 >>,
    << 12641, 12643 >> }

CombiningPairs ==
  { p \in CompatJamo \X CompatJamo : try_combine_vowel(p[1], p[2]) # NoChar }

\* C14: try_combine_vowel is a total lookup that returns a compound vowel for
\* exactly 7 ordered pairs of simple vowels (o+a, o+ae, o+i, u+eo, u+e, u+i,
\* eu+i) and no match for every other pair, in particular for the same two
\* vowels in the reverse order.
C14_SevenVowelPairs ==
  /\ Cardinality(CombiningPairs) = 7
  /\ PairTyped =>
       LET v == try_combine_vowel(PairFirst, PairSecond)
       IN /\ (v # NoChar) <=> (<< PairFirst, PairSecond >> \in VowelDigraphs)
          /\ v # NoChar => /\ is_moeum(v)
                           /\ try_combine_vowel(PairSecond, PairFirst) = NoChar

\* C14 as stated: the lookup matches exactly 8 ordered pairs, o+a, o+i, u+eo,
\* u+i and eu+i among them, and never a pair in the reverse order.
C14_EightVowelPairs ==
  /\ Cardinality(CombiningPairs) = 8
  /\ \A p \in { << 12631, 12623 >>, << 12631, 12643 >>, << 12636, 12627 >>,
               << 12636, 12643 >>, << 12641, 12643 >> } :
       try_combine_vowel(p[1], p[2]) # NoChar
  /\ PairTyped /\ try_combine_vowel(PairFirst, PairSecond) # NoChar
       => try_combine_vowel(PairSecond, PairFirst) = NoChar

\* ㅗ and ㅏ typed after 가 are shown as ㅘ.
C14_Witness ==
  /\ typed = << 12593, 12623, 12631, 12623 >>
  /\ input_composing = << 12631, 12623 >>
  /\ Display = << compose_char(12593, 12623, NoChar), 12632 >>

(***************************************************************************)
(* A run that takes every syllable block through the codec: the block      *)
(* arrives as one character, Backspace decomposes it and drops its last    *)
(* jamo (lines 776-785), and that jamo is typed again.                     *)
(***************************************************************************)
MaxCodecEvents == 3

Syllables == SyllableBase..SyllableEnd

\* The (lead, vowel, optional trailing) triple as the jamo list of line 779.
JamoOf(d) ==
  IF d.tail # NoChar THEN << d.lead, d.vowel, d.tail >> ELSE << d.lead, d.vowel >>

CodecKeys ==
  CASE Len(typed) = 0 -> Syllables
    [] Len(typed) = 1 /\ n_back = 1 -> {Last(JamoOf(decompose_char(typed[1])))}
    [] OTHER -> {}

CodecType == ReceivedCharacter(CodecKeys, MaxCodecEvents)
CodecBack == Len(typed) >= 1 /\ KeyBack(MaxCodecEvents)

NextCodec == CodecType \/ CodecBack

SpecCodec == Init /\ [][NextCodec]_vars

\* C15: codec round trip: every syllable block S decomposes, composing the
\* (lead, vowel, optional trailing) triple of decompose_char(S) gives back
\* exactly S, the triple is the one of the arithmetic layout, and the block
\* whose last jamo Backspace dropped is shown again once that jamo is typed.
C15_CodecRoundTrip ==
  Len(typed) >= 1 =>
    LET S == typed[1]
        d == decompose_char(S)
        off == S - SyllableBase
    IN /\ d.ok
       /\ collapse_to_syllable(JamoOf(d)) = S
       /\ IndexOf(ChoseongTable, d.lead) - 1 = off \div (VowelCount * TrailingCount)
       /\ d.vowel - CompatVowelFirst
            = (off % (VowelCount * TrailingCount)) \div TrailingCount
       /\ (IF d.tail = NoChar THEN 0 ELSE IndexOf(JongseongTable, d.tail))
            = off % TrailingCount
       /\ Len(typed) = 2 /\ n_back = 1 => Display = << S >>

\* 닭 came in, Backspace left ㄷㅏ, and ㄺ typed again shows 닭.
C15_Witness ==
  /\ typed = << 45805, 12602 >>
  /\ n_back = 1
  /\ input_composing = << 12599, 12623, 12602 >>
  /\ Display = << 45805 >>

(***************************************************************************)
(* A run in which frames are drawn at any time, between any two key        *)
(* events.                                                                 *)
(***************************************************************************)
MaxViewEvents == 4

ViewType == ReceivedCharacter(Keys, MaxViewEvents)
ViewBack == KeyBack(MaxViewEvents)
ViewReturn == KeyReturn(MaxViewEvents)

NextView == ViewType \/ ViewBack \/ ViewReturn \/ Update

SpecView == Init /\ [][NextView]_vars

\* A step that is no key event: a frame.
FrameStep == n_events' = n_events

\* C16: the rendered view is read-only: a frame draws the committed text
\* followed by the composing buffer clustered and collapsed to one syllable
\* when the whole buffer collapses, else by its clusters, and drawing changes
\* neither buffer (only the Enter branch of the text field, in a frame with a
\* Return press pending, clears them before the view is drawn).
C16_ViewReadOnly ==
  [][FrameStep =>
       /\ shown' = input_committed' \o Finalized(input_composing')
       /\ \/ /\ input_committed' = input_committed
             /\ input_composing' = input_composing
          \/ /\ egui_enter
             /\ input_committed' = << >>
             /\ input_composing' = << >>]_vars

\* A frame drew 가 after the committed ㄱ, and the pending ㄱㅏ stayed raw in
\* the composing buffer.
C16_Witness ==
  /\ typed = << 12593, 12593, 12623 >>
  /\ shown = << 12593, compose_char(12593, 12623, NoChar) >>
  /\ input_committed = << 12593 >>
  /\ input_composing = << 12593, 12623 >>

\* C17: eviction never breaks up a composable syllable: an ordinary jamo
\* append does not evict a raw jamo out of a composing buffer whose clusters
\* collapse to a valid syllable block.
C17_EvictionKeepsSyllable ==
  [][(OrdinaryAppend /\ Len(input_composing) = ComposingCapacity)
       => ~is_syllable(composing_syllable(TheModel))]_vars

\* The longest prefix of at most k clusters that collapses, scanning from k
\* down; 0 when none does.
RECURSIVE LongestCollapsingPrefix(_, _)
LongestCollapsingPrefix(clusters, k) ==
  IF k <= 0
  THEN 0
  ELSE IF collapse_to_syllable(SubSeq(clusters, 1, k)) # NoChar
  THEN k
  ELSE LongestCollapsingPrefix(clusters, k - 1)

\* The passes of the prefix commit on a composing buffer: what they commit,
\* in order, and the raw jamo they leave.
RECURSIVE PrefixPasses(_)
PrefixPasses(composing) ==
  LET cs == cluster_jamo_with_spans(composing)
      n == Len(cs.clusters)
      i == LongestCollapsingPrefix(cs.clusters, n - 1)
  IN IF collapse_to_syllable(cs.clusters) # NoChar \/ i = 0
     THEN [commits |-> << >>, rest |-> composing]
     ELSE LET removed == SumSeq(SubSeq(cs.spans, 1, i))
              later == PrefixPasses(SubSeq(composing, removed + 1, Len(composing)))
          IN [commits |-> << collapse_to_syllable(SubSeq(cs.clusters, 1, i)) >>
                            \o later.commits,
              rest |-> later.rest]

\* C18: prefix commit in the ordinary append: while the clustered composing
\* buffer does not collapse, each pass commits the syllable of the longest
\* proper cluster prefix that collapses and removes from the front of the
\* buffer exactly the sum of that prefix's spans in raw characters; the loop
\* ends when the whole buffer collapses or no proper prefix does, after at
\* most as many passes as raw characters were removed.
C18_PrefixCommit ==
  [][OrdinaryAppend =>
       LET pushed == push_with_eviction(TheModel, TypedChar)
           passes == PrefixPasses(pushed.composing)
           left == cluster_jamo_with_spans(input_composing').clusters
       IN /\ input_committed' = pushed.committed \o passes.commits
          /\ input_composing' = passes.rest
          /\ Len(passes.commits) <= Len(pushed.composing) - Len(passes.rest)
          /\ \/ collapse_to_syllable(left) # NoChar
             \/ LongestCollapsingPrefix(left, Len(left) - 1) = 0]_vars

\* ㄹ after ㄱㅗㅏㄹ: the prefix ㄱ ㅘ ㄹ of three clusters was committed as 괄
\* and four raw jamo were removed.
C18_Witness ==
  /\ typed = << 12593, 12631, 12623, 12601, 12601 >>
  /\ input_committed = << compose_char(12593, 12632, 12601) >>
  /\ input_composing = << 12601 >>

\* The position in raw at which the scan emits its k-th cluster.
ScanPosition(spans, k) == 1 + SumSeq(SubSeq(spans, 1, k - 1))

\* cluster_jamo_with_spans(raw) is the greedy left-to-right scan of raw.
GreedyScan(raw) ==
  LET cs == cluster_jamo_with_spans(raw)
  IN /\ Len(cs.clusters) = Len(cs.spans)
     /\ \A k \in 1..Len(cs.spans) : cs.spans[k] \in {1, 2}
     /\ SumSeq(cs.spans) = Len(raw)
     /\ \A k \in 1..Len(cs.clusters) :
          LET p == ScanPosition(cs.spans, k)
              pair == p + 1 <= Len(raw)
              v == IF pair THEN try_combine_vowel(raw[p], raw[p + 1]) ELSE NoChar
              f == IF pair THEN try_combine_final(raw[p], raw[p + 1]) ELSE NoChar
          IN /\ p <= Len(raw)
             /\ IF v # NoChar THEN cs.clusters[k] = v /\ cs.spans[k] = 2
                ELSE IF f # NoChar THEN cs.clusters[k] = f /\ cs.spans[k] = 2
                ELSE cs.clusters[k] = raw[p] /\ cs.spans[k] = 1

\* C19: clustering is a single greedy left-to-right scan: for the composing
\* buffer and for every sequence of jamo typed, the cluster list and the span
\* list have the same length, every span is 1 or 2, the spans sum to the
\* length of the raw input, and at each scan position a pair that combines as
\* a vowel, else as a trailing consonant, is merged, else the single jamo is
\* emitted.
C19_GreedyClusters == GreedyScan(input_composing) /\ GreedyScan(typed)

\* ㄱㅗㅏㄹㄱ clusters into ㄱ, ㅘ, ㄺ with spans 1, 2, 2.
C19_Witness ==
  /\ input_composing = << 12593, 12631, 12623, 12601, 12593 >>
  /\ cluster_jamo_with_spans(input_composing)
       = [clusters |-> << 12593, 12632, 12602 >>, spans |-> << 1, 2, 2 >>]

\* C20: the committed buffer is shortened only by Backspace and by the clear
\* on Enter (the Return key or the Enter branch of the text field in the
\* frame that follows): every character event leaves it at least as long as
\* before and leaves every committed character except possibly the previous
\* last one unchanged.
C20_CommittedGrows ==
  [][/\ CharStep =>
          /\ Len(input_committed') >= Len(input_committed)
          /\ \A i \in 1..(Len(input_committed) - 1) :
               input_committed'[i] = input_committed[i]
     /\ Len(input_committed') < Len(input_committed) =>
          BackStep \/ ReturnStep \/ (FrameStep /\ egui_enter)]_vars

\* The vowel after 닭간 rebuilt the last committed character 간 as 가 and left
\* 닭 before it unchanged.
C20_Witness ==
  /\ typed = << 45805, 44036, 12623 >>
  /\ input_committed = << 45805, compose_char(12593, 12623, NoChar), 12623 >>
  /\ input_composing = << 12596 >>

ConstituentsOf ==
  [c \in CompatJamo |->
     IF \E p \in VowelDigraphs : try_combine_vowel(p[1], p[2]) = c
     THEN CHOOSE p \in VowelDigraphs : try_combine_vowel(p[1], p[2]) = c
     ELSE IF \E p \in TrailingDigraphs : try_combine_final(p[1], p[2]) = c
     THEN CHOOSE p \in TrailingDigraphs : try_combine_final(p[1], p[2]) = c
     ELSE << c >>]

\* The raw jamo of one character that is no syllable block; NoChar as
\* nothing.
Constituents(c) ==
  IF c = NoChar THEN << >>
  ELSE IF c \in CompatJamo THEN ConstituentsOf[c]
  ELSE << c >>

\* A text fully decomposed into raw simple jamo: syllable blocks into lead,
\* vowel and trailing consonant, compounds into their constituents.
RECURSIVE RawJamo(_)
RawJamo(text) ==
  IF text = << >>
  THEN << >>
  ELSE LET c == Head(text)
           d == decompose_char(c)
       IN (IF d.ok
           THEN << d.lead >> \o Constituents(d.vowel) \o Constituents(d.tail)
           ELSE Constituents(c))
          \o RawJamo(Tail(text))

\* A character a keyboard sends: a simple jamo, or a character that is no
\* Hangeul at all.
IsKeyboardChar(c) ==
  /\ ~is_syllable(c)
  /\ ~is_jamo(c)
  /\ Constituents(c) = << c >>

\* A session of character events only, over keyboard characters.
AppendOnlySession ==
  /\ n_back = 0
  /\ \A i \in 1..Len(typed) : IsKeyboardChar(typed[i])

\* C22: keystroke order is preserved in append-only sessions: after any
\* sequence of character events over keyboard characters, from an empty
\* session, the committed text fully decomposed into raw simple jamo,
\* followed by the composing buffer, is exactly the sequence typed.
C22_KeystrokeOrder ==
  AppendOnlySession => RawJamo(input_committed) \o input_composing = typed

\* ㄱㅗㅏ and a full stop: the committed 과. decomposes into the four
\* characters typed.
C22_Witness ==
  /\ typed = << 12593, 12631, 12623, 46 >>
  /\ n_back = 0
  /\ input_committed = << compose_char(12593, 12632, NoChar), 46 >>
  /\ input_composing = << >>

\* C23: a consonant followed by a vowel becomes that vowel's lead: when a
\* vowel X is appended directly after the append of a valid lead consonant C,
\* the rendered view afterwards ends with the syllable block of lead C and
\* vowel X, whatever was typed before C.
C23_ConsonantLeadsVowel ==
  [][(/\ CharStep
      /\ n_back = 0
      /\ Len(typed) >= 1
      /\ IsLead(typed[Len(typed)])
      /\ TypedChar >= CompatVowelFirst
      /\ TypedChar <= CompatVowelLast)
       => LET view == input_committed' \o Finalized(input_composing')
          IN /\ view # << >>
             /\ Last(view) = compose_char(typed[Len(typed)], TypedChar, NoChar)]_vars

(***************************************************************************)
(* A run of process_char calls on one Karacter value, over a lead          *)
(* consonant, a second lead consonant, a vowel, a conjoining lead          *)
(* consonant, a syllable block and a Latin letter.                         *)
(***************************************************************************)
MaxCalls == 4

KaracterChars == {12593, 12596, 12623, 4352, 44032, 97}

ProcessChar ==
  \E c \in KaracterChars :
    /\ Len(calls) < MaxCalls
    /\ LET out == process_char(karacter, c)
       IN /\ karacter' = out.karacter
          /\ returns' = Append(returns, out.result)
    /\ calls' = Append(calls, c)
    /\ UNCHANGED << input_committed, input_composing, input_history, panicked,
                    shown, egui_enter, typed, n_back, typed_after_back,
                    n_return, n_events >>

NextKaracter == ProcessChar

SpecKaracter == Init /\ [][NextKaracter]_vars

\* C24: process_char returns Some(c) on every call up to and including the
\* first call whose character is a choseong and None on every call after it;
\* a call changes no field other than first, which is set once, to that
\* choseong, and never cleared.
C24_ProcessChar ==
  /\ [](\A i \in 1..Len(calls) :
          returns[i] = IF \E j \in 1..(i - 1) : is_choseong(calls[j])
                       THEN NoChar ELSE calls[i])
  /\ [][/\ karacter' = [karacter EXCEPT !.first = karacter'.first]
        /\ karacter.first # NoChar => karacter'.first = karacter.first
        /\ karacter'.first # karacter.first =>
             /\ is_choseong(karacter'.first)
             /\ karacter'.first = calls'[Len(calls')]]_vars

\* ㅏ and ㄱ were returned, ㄱ was kept in first, and the third call returned
\* None.
C24_Witness ==
  /\ calls = << 12623, 12593, 12596 >>
  /\ returns = << 12623, 12593, NoChar >>
  /\ karacter = [new EXCEPT !.first = 12593]

=============================================================================
